---- MODULE Spec2Model ----
(***************************************************************************)
(* Order intake and notification pipeline of the Altindan web shop.        *)
(*                                                                         *)
(* The repository holds three stand-alone programs:                        *)
(*   main.py       Flask (threaded) + aiogram; one JSON file database.json *)
(*                 holding products, orders and admins                     *)
(*   bot_main.py   Flask + aiogram; products.json (read only) and          *)
(*                 orders.json                                             *)
(*   web_server.py Flask; POST /api/order sends to Telegram synchronously, *)
(*                 no order store                                          *)
(* The variable app says which program the process runs.  Request threads  *)
(* interleave at every file-system call and at the hand-off to the bot     *)
(* event loop.                                                             *)
(*                                                                         *)
(* Data abstraction: the free-text fields of an order (name, phone, note,  *)
(* product_name, time) are copied verbatim by the code and are left out of *)
(* the order record; the field req is the identity of the submission (the  *)
(* request thread that built the record).                                  *)
(***************************************************************************)
EXTENDS Integers, Sequences, FiniteSets, TLC

\* Number of request threads (Flask serves each request on its own thread).
NumThreads == 2
\* Size of the modelled slice of the order id space ("o" + uuid4().hex[:8]).
NumIds == 2

Threads == 1..NumThreads
OrderIds == 1..NumIds

VARIABLES
    app,        \* which program runs: "main", "bot_main" or "web_server"
    bot,        \* module global bot: TRUE iff a Bot object was built (token set)
    groupId,    \* ORDER_GROUP_ID / GROUP_ID_INT: TRUE iff set (not None)
    aioloop,    \* module global aioloop published by the bot thread
    file,       \* the JSON file holding the orders (database.json / orders.json)
    pc,         \* per request thread: position in the handler
    req,        \* per request thread: the request being served
    local,      \* per request thread: the handler's local variables
    resp,       \* per request thread: the response returned ("none" while running)
    wrote,      \* per request thread: write_db / json.dump of its record returned
    tornRead,   \* some read of the file found it truncated by a write in progress
    queue,      \* coroutines scheduled on the bot loop, by submitting thread
    attempts,   \* per submission: number of transport sends attempted
    delivered,  \* submissions whose message reached the chat
    sendFailed, \* submissions whose send raised in the dispatcher
    durable,    \* order records that have stood in a complete file (history)
    loopSeen,   \* per submission: what the hand-off found in the global aioloop
                \* ("none" before the hand-off, then "published" or "absent")
    writeFailed,\* the submissions whose write of the store raised
    env         \* what the surroundings can supply: the qty form values clients
                \* submit and the values uuid4().hex[:8] can take (fixed at start)

vars == <<app, bot, groupId, aioloop, file, pc, req, local, resp, wrote,
          tornRead, queue, attempts, delivered, sendFailed, durable, env, loopSeen, writeFailed>>

----------------------------------------------------------------------------
\* Data

NoProduct == [id |-> "None", price |-> 0]
Product(i, p) == [id |-> i, price |-> p]

\* qty of an order: main.py stores a float (tenths here), bot_main.py the raw
\* form string.
NumQty(v) == [num |-> TRUE, tenths |-> v, raw |-> <<>>]
RawQty(s) == [num |-> FALSE, tenths |-> 0, raw |-> s]

NoOrder == [req |-> 0, id |-> 0, product_id |-> "None", price |-> 0, qty |-> NumQty(0)]

\* ensure_db's sample / the default products.json
MainSeed == <<Product("p1", 45000)>>
BotSeed == <<Product("p1", 20000), Product("p2", 25000)>>

\* read_db's fallback value when the file does not parse
EmptyDB == [products |-> <<>>, orders |-> <<>>]

\* The file on disk: "ok" (a complete JSON document, in db), "missing",
\* "empty" (truncated by open(..., "w"), nothing flushed yet) or "garbled"
\* (bytes of two writers overlaid: not a JSON document).
FileOk(d) == [state |-> "ok", db |-> d]
FileBad(s) == [state |-> s, db |-> EmptyDB]

----------------------------------------------------------------------------
\* Pure helpers

\* request.form.get("qty", "1"): a form field is a string (a sequence of
\* characters here) or absent.
Missing == <<"<absent>">>
FormGet(v, default) == IF v = Missing THEN default ELSE v

IsDigit(c) == c \in {"0", "1", "2", "3", "4", "5", "6", "7", "8", "9"}
DigitVal(c) ==
    CASE c = "1" -> 1 [] c = "2" -> 2 [] c = "3" -> 3 [] c = "4" -> 4
      [] c = "5" -> 5 [] c = "6" -> 6 [] c = "7" -> 7 [] c = "8" -> 8
      [] c = "9" -> 9 [] OTHER -> 0

RECURSIVE AllDigits(_)
AllDigits(s) == s = <<>> \/ (IsDigit(Head(s)) /\ AllDigits(Tail(s)))

RECURSIVE DigitsVal(_, _)
DigitsVal(s, acc) ==
    IF s = <<>> THEN acc ELSE DigitsVal(Tail(s), 10 * acc + DigitVal(Head(s)))

\* Python's float(s) on strings over digits, "-", "+", "." and letters, with at
\* most one digit after the point: [ok |-> parsed, tenths |-> value * 10].
\* ok = FALSE stands for the ValueError float() raises.
UnsignedFloat(s) ==
    LET dots == {i \in 1..Len(s) : s[i] = "."} IN
    IF dots = {}
    THEN IF s # <<>> /\ AllDigits(s)
         THEN [ok |-> TRUE, tenths |-> 10 * DigitsVal(s, 0)]
         ELSE [ok |-> FALSE, tenths |-> 0]
    ELSE LET i == CHOOSE k \in dots : \A j \in dots : k <= j
             ip == SubSeq(s, 1, i - 1)
             fp == SubSeq(s, i + 1, Len(s))
         IN IF AllDigits(ip) /\ AllDigits(fp) /\ (ip # <<>> \/ fp # <<>>)
            THEN [ok |-> TRUE,
                  tenths |-> 10 * DigitsVal(ip, 0)
                             + (IF fp = <<>> THEN 0 ELSE DigitVal(fp[1]))]
            ELSE [ok |-> FALSE, tenths |-> 0]

float(s) ==
    IF s # <<>> /\ Head(s) = "-"
    THEN LET u == UnsignedFloat(Tail(s)) IN [ok |-> u.ok, tenths |-> 0 - u.tenths]
    ELSE IF s # <<>> /\ Head(s) = "+"
    THEN UnsignedFloat(Tail(s))
    ELSE UnsignedFloat(s)

\* main.py order(): try: qty = float(form.get("qty", "1")) except: qty = 1.0
parse_qty(v) ==
    LET f == float(FormGet(v, <<"1">>)) IN
    IF f.ok THEN NumQty(f.tenths) ELSE NumQty(10)

\* bot_main.py order(): "qty": request.form.get("qty", "1")
bm_qty(v) == RawQty(FormGet(v, <<"1">>))

\* read_db(): the parsed document, or the fallback when json.load raises.
\* (ensure_db() finds the file present: it is created at import time.)
read_db(f) == IF f.state = "ok" THEN f.db ELSE EmptyDB

\* first product of a list with the given id, else None
FirstWithId(ps, pid) ==
    IF \E i \in 1..Len(ps) : ps[i].id = pid
    THEN ps[CHOOSE i \in 1..Len(ps) :
                /\ ps[i].id = pid
                /\ \A j \in 1..Len(ps) : ps[j].id = pid => i <= j]
    ELSE NoProduct

\* a lookup that falls back to the first product instead of None
find_product_or_first(pid, f) ==
    LET ps == read_db(f).products IN
    IF FirstWithId(ps, pid) = NoProduct /\ ps # <<>> THEN ps[1]
    ELSE FirstWithId(ps, pid)

find_product(pid, f) == FirstWithId(read_db(f).products, pid)

\* an order record that takes the default instead of the product's price
product_price_default(product) == 0

\* "price": product.get("price", 0): the number itself is copied into the order
product_price(product) == product.price

\* bot_main.py load_products(): products.json is written only at import.
load_products == BotSeed

\* what a writer leaves in the file when its buffered bytes are flushed at
\* close: its own document if the file was still empty; if another writer's
\* bytes are already there, its document overlays them from offset 0 and any
\* longer tail of the other document stays behind (not JSON any more).
FlushResults(f, d) ==
    IF f.state \in {"empty", "missing"}
    THEN {FileOk(d)}
    ELSE {FileOk(d), FileBad("garbled")}

\* inputs
QtyInputs == {<<"1">>, <<"2", ".", "5">>, <<"0">>, <<"-", "3">>, <<"a", "b">>, <<>>, Missing}
PidInputs == {"p1", "pn", "px"}
Methods == {"GET", "POST"}

NoReq == [kind |-> "none", pid |-> "None", qty |-> Missing, valid |-> FALSE]
NoLocal == [order |-> NoOrder, product |-> NoProduct, db |-> EmptyDB]

----------------------------------------------------------------------------
\* the state after import, before the first request
Start ==
    /\ app \in {"main", "bot_main", "web_server"}
    /\ bot \in BOOLEAN
    /\ groupId \in BOOLEAN
    /\ aioloop = FALSE
    /\ file = IF app = "main"
              THEN FileOk([products |-> MainSeed, orders |-> <<>>])
              ELSE FileBad("missing")
    /\ pc = [t \in Threads |-> "idle"]
    /\ req = [t \in Threads |-> NoReq]
    /\ local = [t \in Threads |-> NoLocal]
    /\ resp = [t \in Threads |-> "none"]
    /\ wrote = [t \in Threads |-> FALSE]
    /\ tornRead = FALSE
    /\ queue = {}
    /\ attempts = [t \in Threads |-> 0]
    /\ delivered = {}
    /\ sendFailed = {}
    /\ durable = {}
    /\ loopSeen = [t \in Threads |-> "none"]
    /\ writeFailed = {}

\* the concurrency model: every client submits the same well-formed quantity
Init ==
    /\ Start
    /\ env = [qty |-> {<<"2", ".", "5">>}, ids |-> {1}, io |-> {TRUE}]

\* the input model: clients submit any of QtyInputs and uuid4().hex[:8] takes
\* any value of OrderIds
InitQty ==
    /\ Start
    /\ env = [qty |-> QtyInputs, ids |-> OrderIds, io |-> {TRUE}]

\* the failure model: open("w") or json.dump may raise OSError
InitFail ==
    /\ Start
    /\ env = [qty |-> {<<"2", ".", "5">>}, ids |-> {1}, io |-> BOOLEAN]

Finish(t, r) ==
    /\ pc' = [pc EXCEPT ![t] = "done"]
    /\ resp' = [resp EXCEPT ![t] = r]
    /\ local' = [local EXCEPT ![t] = NoLocal]

Goto(t, l) == pc' = [pc EXCEPT ![t] = l]

\* a handler that catches the error of the write and carries on to the hand-off
OSError_caught(t) ==
    /\ writeFailed' = writeFailed \cup {t}
    /\ Goto(t, "notify")
    /\ UNCHANGED <<resp, local>>

\* the write raises: nothing in order() catches it, Flask answers 500
OSError(t) ==
    /\ writeFailed' = writeFailed \cup {t}
    /\ Finish(t, "500")

\* what a write that raised part-way leaves of the file
PartialWrites == {FileBad("empty"), FileBad("garbled")}

\* the hand-off reads the module global aioloop
Saw(t) == loopSeen' = [loopSeen EXCEPT ![t] = IF aioloop THEN "published" ELSE "absent"]

Torn(f) == tornRead' = (tornRead \/ f.state = "empty")

Range(q) == {q[i] : i \in 1..Len(q)}

\* list_all(): the orders a reader of the file gets
StoredOrders(f) == read_db(f).orders

Stood(f) == durable' = durable \cup Range(StoredOrders(f))

----------------------------------------------------------------------------
\* main.py

\* order(product_id) up to the built order record
order_find(t) ==
    /\ app = "main" /\ pc[t] = "idle"
    /\ \E pid \in PidInputs, method \in Methods, qty \in env.qty, id \in env.ids :
         LET product == find_product(pid, file) IN
         /\ Torn(file)
         /\ IF product = NoProduct
            THEN /\ req' = [req EXCEPT ![t] = [kind |-> "order", pid |-> pid, qty |-> Missing, valid |-> FALSE]]
                 /\ Finish(t, "404")
            ELSE IF method = "GET"
            THEN /\ req' = [req EXCEPT ![t] = [kind |-> "order", pid |-> pid, qty |-> Missing, valid |-> FALSE]]
                 /\ Finish(t, "form")
            ELSE /\ req' = [req EXCEPT ![t] = [kind |-> "order", pid |-> pid, qty |-> qty, valid |-> TRUE]]
                 /\ local' = [local EXCEPT ![t].order =
                        [req |-> t, id |-> id, product_id |-> pid,
                         price |-> product_price(product), qty |-> parse_qty(qty)]]
                 /\ Goto(t, "read")
                 /\ UNCHANGED resp
    /\ UNCHANGED <<app, bot, groupId, aioloop, file, wrote, queue, attempts,
                   delivered, sendFailed, durable, env, loopSeen, writeFailed>>

\* db = read_db(); db["orders"].append(order)
order_read_db(t) ==
    /\ app = "main" /\ pc[t] = "read" /\ req[t].kind = "order"
    /\ LET db == read_db(file) IN
       local' = [local EXCEPT ![t].db =
                    [db EXCEPT !.orders = Append(@, local[t].order)]]
    /\ Torn(file)
    /\ Goto(t, "open")
    /\ UNCHANGED <<app, bot, groupId, aioloop, file, req, resp, wrote, queue,
                   attempts, delivered, sendFailed, durable, env, loopSeen, writeFailed>>

\* write_db(data): with DB_FILE.open("w") truncates the file
write_db_open(t) ==
    /\ app = "main" /\ pc[t] = "open"
    /\ \E ok \in env.io :
         IF ok
         THEN /\ file' = FileBad("empty")
              /\ Goto(t, "dump")
              /\ UNCHANGED <<local, resp, writeFailed>>
         ELSE /\ OSError(t)
              /\ UNCHANGED file
    /\ UNCHANGED <<app, bot, groupId, aioloop, req, wrote, tornRead, queue,
                   attempts, delivered, sendFailed, durable, env, loopSeen>>

\* write_db(data): json.dump and the close that flushes it
write_db_dump(t) ==
    /\ app = "main" /\ pc[t] = "dump"
    /\ \E ok \in env.io :
         IF ok
         THEN /\ file' \in FlushResults(file, local[t].db)
              /\ Stood(file')
              /\ wrote' = [wrote EXCEPT ![t] = TRUE]
              /\ Goto(t, IF req[t].kind = "order" THEN "notify" ELSE "respond")
              /\ UNCHANGED <<local, resp, writeFailed>>
         ELSE /\ file' \in PartialWrites
              /\ OSError(t)
              /\ UNCHANGED <<wrote, durable>>
    /\ UNCHANGED <<app, bot, groupId, aioloop, req, tornRead, queue, attempts,
                   delivered, sendFailed, env, loopSeen>>

\* the hand-off placed ahead of write_db(db)
order_notify_early(t) ==
    /\ app = "main" /\ pc[t] \in {"open", "notify"}
    /\ queue' = IF aioloop THEN queue \cup {t} ELSE queue
    /\ Saw(t)
    /\ Goto(t, IF pc[t] = "open" THEN "open" ELSE "respond")
    /\ UNCHANGED <<app, bot, groupId, aioloop, file, req, local, resp, wrote,
                   tornRead, attempts, delivered, sendFailed, durable, env, writeFailed>>

\* a hand-off that schedules whatever the global aioloop holds
order_notify_always(t) ==
    /\ app = "main" /\ pc[t] = "notify"
    /\ queue' = queue \cup {t}
    /\ Saw(t)
    /\ Goto(t, "respond")
    /\ UNCHANGED <<app, bot, groupId, aioloop, file, req, local, resp, wrote,
                   tornRead, attempts, delivered, sendFailed, durable, env, writeFailed>>

\* if globals().get("aioloop"): asyncio.run_coroutine_threadsafe(...)
order_notify(t) ==
    /\ app = "main" /\ pc[t] = "notify"
    /\ queue' = IF aioloop THEN queue \cup {t} ELSE queue
    /\ Saw(t)
    /\ Goto(t, "respond")
    /\ UNCHANGED <<app, bot, groupId, aioloop, file, req, local, resp, wrote,
                   tornRead, attempts, delivered, sendFailed, durable, env, writeFailed>>

\* return render_template("ordered.html", ...) / return jsonify(product), 201
order_respond(t) ==
    /\ app = "main" /\ pc[t] = "respond"
    /\ Finish(t, IF req[t].kind = "order" THEN "ok" ELSE "201")
    /\ UNCHANGED <<app, bot, groupId, aioloop, file, req, wrote, tornRead, queue,
                   attempts, delivered, sendFailed, durable, env, loopSeen, writeFailed>>

\* api_products(): GET lists; POST needs the admin session, builds the product
PriceInputs == {30000}
NewPid == "pn"

api_products(t) ==
    /\ app = "main" /\ pc[t] = "idle"
    /\ \E method \in Methods, admin \in BOOLEAN, price \in PriceInputs :
         /\ req' = [req EXCEPT ![t] = [kind |-> "products",                               pid |-> "None", qty |-> Missing, valid |-> FALSE]]
         /\ IF method = "GET"
            THEN Finish(t, "list") /\ Torn(file)
            ELSE IF ~admin
            THEN Finish(t, "403") /\ UNCHANGED tornRead
            ELSE /\ local' = [local EXCEPT ![t].product = Product(NewPid, price)]
                 /\ Goto(t, "read")
                 /\ UNCHANGED <<resp, tornRead>>
    /\ UNCHANGED <<app, bot, groupId, aioloop, file, wrote, queue, attempts,
                   delivered, sendFailed, durable, env, loopSeen, writeFailed>>

\* db = read_db(); db["products"].append(product)
api_products_read_db(t) ==
    /\ app = "main" /\ pc[t] = "read" /\ req[t].kind = "products"
    /\ LET db == read_db(file) IN
       local' = [local EXCEPT ![t].db =
                    [db EXCEPT !.products = Append(@, local[t].product)]]
    /\ Torn(file)
    /\ Goto(t, "open")
    /\ UNCHANGED <<app, bot, groupId, aioloop, file, req, resp, wrote, queue,
                   attempts, delivered, sendFailed, durable, env, loopSeen, writeFailed>>

\* run_bot_loop(): reached from __main__ only when bot and dp exist
run_bot_loop ==
    /\ app = "main" /\ bot /\ ~aioloop
    /\ aioloop' = TRUE
    /\ UNCHANGED <<app, bot, groupId, file, pc, req, local, resp, wrote, tornRead,
                   queue, attempts, delivered, sendFailed, durable, env, loopSeen, writeFailed>>

\* a transport call that is made again after it raised
Send_retry(t, ok) ==
    /\ attempts' = [attempts EXCEPT ![t] = IF ok THEN @ + 1 ELSE @ + 2]
    /\ IF ok
       THEN delivered' = delivered \cup {t} /\ UNCHANGED sendFailed
       ELSE sendFailed' = sendFailed \cup {t} /\ UNCHANGED delivered

\* one transport call: it returns, or it raises and the dispatcher logs it
Send(t, ok) ==
    /\ attempts' = [attempts EXCEPT ![t] = @ + 1]
    /\ IF ok
       THEN delivered' = delivered \cup {t} /\ UNCHANGED sendFailed
       ELSE sendFailed' = sendFailed \cup {t} /\ UNCHANGED delivered

NoSend == UNCHANGED <<attempts, delivered, sendFailed>>

\* a dispatcher that takes the coroutine off the loop without running its send
send_order_to_group_async_drop(t) ==
    /\ app = "main" /\ t \in queue
    /\ queue' = queue \ {t}
    /\ NoSend
    /\ UNCHANGED <<app, bot, groupId, aioloop, file, pc, req, local, resp, wrote,
                   tornRead, durable, env, loopSeen, writeFailed>>

\* the coroutine send_order_to_group_async(order) run by the bot loop
send_order_to_group_async(t) ==
    /\ app = "main" /\ t \in queue
    /\ queue' = queue \ {t}
    /\ IF ~bot THEN NoSend
       ELSE IF groupId THEN \E ok \in BOOLEAN : Send(t, ok)
       ELSE NoSend
    /\ UNCHANGED <<app, bot, groupId, aioloop, file, pc, req, local, resp, wrote,
                   tornRead, durable, env, loopSeen, writeFailed>>

----------------------------------------------------------------------------
\* bot_main.py

\* order(pid) up to the built order record
bm_order_find(t) ==
    /\ app = "bot_main" /\ pc[t] = "idle"
    /\ \E pid \in PidInputs, method \in Methods, qty \in env.qty :
         LET product == FirstWithId(load_products, pid) IN
         IF product = NoProduct
         THEN /\ req' = [req EXCEPT ![t] = [kind |-> "order", pid |-> pid, qty |-> Missing, valid |-> FALSE]]
              /\ Finish(t, "404")
         ELSE IF method = "GET"
         THEN /\ req' = [req EXCEPT ![t] = [kind |-> "order", pid |-> pid, qty |-> Missing, valid |-> FALSE]]
              /\ Finish(t, "form")
         ELSE /\ req' = [req EXCEPT ![t] = [kind |-> "order", pid |-> pid, qty |-> qty, valid |-> TRUE]]
              /\ local' = [local EXCEPT ![t].order =
                     [req |-> t, id |-> 0, product_id |-> pid,
                      price |-> product_price(product), qty |-> bm_qty(qty)]]
              /\ Goto(t, "exists")
              /\ UNCHANGED resp
    /\ UNCHANGED <<app, bot, groupId, aioloop, file, wrote, tornRead, queue,
                   attempts, delivered, sendFailed, durable, env, loopSeen, writeFailed>>

\* if not DATA_FILE.exists():
bm_order_exists(t) ==
    /\ app = "bot_main" /\ pc[t] = "exists"
    /\ Goto(t, IF file.state = "missing" THEN "create" ELSE "load")
    /\ UNCHANGED <<app, bot, groupId, aioloop, file, req, local, resp, wrote,
                   tornRead, queue, attempts, delivered, sendFailed, durable, env, loopSeen, writeFailed>>

\* DATA_FILE.write_text("[]")
bm_order_create(t) ==
    /\ app = "bot_main" /\ pc[t] = "create"
    /\ \E ok \in env.io :
         IF ok THEN file' = FileOk(EmptyDB)
         ELSE file' \in {file, FileBad("empty")}   \* raised: the except takes it
    /\ Goto(t, "load")
    /\ UNCHANGED <<app, bot, groupId, aioloop, req, local, resp, wrote, tornRead,
                   queue, attempts, delivered, sendFailed, durable, env, loopSeen, writeFailed>>

\* arr = json.load(f), except: arr = []; arr.append(order)
bm_order_load(t) ==
    /\ app = "bot_main" /\ pc[t] = "load"
    /\ LET arr == read_db(file) IN
       local' = [local EXCEPT ![t].db =
                    [arr EXCEPT !.orders = Append(@, local[t].order)]]
    /\ Torn(file)
    /\ Goto(t, "open")
    /\ UNCHANGED <<app, bot, groupId, aioloop, file, req, resp, wrote, queue,
                   attempts, delivered, sendFailed, durable, env, loopSeen, writeFailed>>

\* with DATA_FILE.open("w") truncates the file
bm_order_open(t) ==
    /\ app = "bot_main" /\ pc[t] = "open"
    /\ \E ok \in env.io :
         IF ok
         THEN /\ file' = FileBad("empty")
              /\ Goto(t, "dump")
              /\ UNCHANGED <<local, resp, writeFailed>>
         ELSE /\ OSError(t)
              /\ UNCHANGED file
    /\ UNCHANGED <<app, bot, groupId, aioloop, req, wrote, tornRead, queue,
                   attempts, delivered, sendFailed, durable, env, loopSeen>>

\* json.dump(arr, f, ...) and the close that flushes it
bm_order_dump(t) ==
    /\ app = "bot_main" /\ pc[t] = "dump"
    /\ \E ok \in env.io :
         IF ok
         THEN /\ file' \in FlushResults(file, local[t].db)
              /\ Stood(file')
              /\ wrote' = [wrote EXCEPT ![t] = TRUE]
              /\ Goto(t, "notify")
              /\ UNCHANGED <<local, resp, writeFailed>>
         ELSE /\ file' \in PartialWrites
              /\ OSError(t)
              /\ UNCHANGED <<wrote, durable>>
    /\ UNCHANGED <<app, bot, groupId, aioloop, req, tornRead, queue, attempts,
                   delivered, sendFailed, env, loopSeen>>

\* if 'aioloop' in globals() and ... and BOT_TOKEN and ORDER_GROUP_ID: schedule
bm_order_notify(t) ==
    /\ app = "bot_main" /\ pc[t] = "notify"
    /\ queue' = IF aioloop /\ bot /\ groupId THEN queue \cup {t} ELSE queue
    /\ Saw(t)
    /\ Goto(t, "respond")
    /\ UNCHANGED <<app, bot, groupId, aioloop, file, req, local, resp, wrote,
                   tornRead, attempts, delivered, sendFailed, durable, env, writeFailed>>

\* return render_template("ordered.html")
bm_order_respond(t) ==
    /\ app = "bot_main" /\ pc[t] = "respond"
    /\ Finish(t, "ok")
    /\ UNCHANGED <<app, bot, groupId, aioloop, file, req, wrote, tornRead, queue,
                   attempts, delivered, sendFailed, durable, env, loopSeen, writeFailed>>

\* __main__: the loop is created and published only when bot exists
bm_start_loop ==
    /\ app = "bot_main" /\ bot /\ ~aioloop
    /\ aioloop' = TRUE
    /\ UNCHANGED <<app, bot, groupId, file, pc, req, local, resp, wrote, tornRead,
                   queue, attempts, delivered, sendFailed, durable, env, loopSeen, writeFailed>>

\* the coroutine send_order_to_group_async(order) run by the bot loop
bm_send_order_to_group_async(t) ==
    /\ app = "bot_main" /\ t \in queue
    /\ queue' = queue \ {t}
    /\ IF ~bot THEN NoSend ELSE \E ok \in BOOLEAN : Send(t, ok)
    /\ UNCHANGED <<app, bot, groupId, aioloop, file, pc, req, local, resp, wrote,
                   tornRead, durable, env, loopSeen, writeFailed>>

----------------------------------------------------------------------------
\* web_server.py

\* api_order(): no store; the send is made on the request thread
api_order(t) ==
    /\ app = "web_server" /\ pc[t] = "idle"
    /\ \E data \in BOOLEAN :
         /\ req' = [req EXCEPT ![t] = [kind |-> "api_order", pid |-> "None", qty |-> Missing, valid |-> data]]
         /\ IF ~data THEN Finish(t, "400") /\ NoSend
            ELSE IF ~bot \/ ~groupId THEN Finish(t, "500") /\ NoSend
            ELSE \E ok \in BOOLEAN :
                   /\ Send(t, ok)
                   /\ Finish(t, IF ok THEN "ok" ELSE "500")
    /\ UNCHANGED <<app, bot, groupId, aioloop, file, wrote, tornRead, queue, durable, env, loopSeen, writeFailed>>

----------------------------------------------------------------------------
Next ==
    \/ \E t \in Threads : order_find(t)
    \/ \E t \in Threads : order_read_db(t)
    \/ \E t \in Threads : write_db_open(t)
    \/ \E t \in Threads : write_db_dump(t)
    \/ \E t \in Threads : order_notify(t)
    \/ \E t \in Threads : order_respond(t)
    \/ \E t \in Threads : api_products(t)
    \/ \E t \in Threads : api_products_read_db(t)
    \/ run_bot_loop
    \/ \E t \in Threads : send_order_to_group_async(t)
    \/ \E t \in Threads : bm_order_find(t)
    \/ \E t \in Threads : bm_order_exists(t)
    \/ \E t \in Threads : bm_order_create(t)
    \/ \E t \in Threads : bm_order_load(t)
    \/ \E t \in Threads : bm_order_open(t)
    \/ \E t \in Threads : bm_order_dump(t)
    \/ \E t \in Threads : bm_order_notify(t)
    \/ \E t \in Threads : bm_order_respond(t)
    \/ bm_start_loop
    \/ \E t \in Threads : bm_send_order_to_group_async(t)
    \/ \E t \in Threads : api_order(t)

Spec == Init /\ [][Next]_vars

SpecQty == InitQty /\ [][Next]_vars
SpecFail == InitFail /\ [][Next]_vars

----------------------------------------------------------------------------
\* Properties

Orders == StoredOrders(file)
OwnRecords(t) == {i \in 1..Len(Orders) : Orders[i].req = t}
IsOrder(t) == req[t].kind = "order"
Scheduled(t) == t \in queue \/ attempts[t] > 0
WriterActive == \E t \in Threads : pc[t] = "dump"

\* C1: when a valid POST /order/{id} is about to return its success response
\* (and no other request is in the middle of rewriting the file), the store
\* holds the record of that submission, exactly once and with product_id = id:
\* the record is in the store before the acknowledgment.
C1_AckedOrderStored ==
    \A t \in Threads :
        (IsOrder(t) /\ pc[t] = "respond" /\ ~WriterActive) =>
            /\ Cardinality(OwnRecords(t)) = 1
            /\ \A i \in OwnRecords(t) : Orders[i].product_id = req[t].pid

\* C2: once NumThreads concurrently running order submissions have all
\* returned success, the store holds the record of every one of them, exactly
\* once.
C2_AllOrdersStored ==
    (\A t \in Threads : pc[t] = "done" /\ IsOrder(t) /\ resp[t] = "ok") =>
        \A t \in Threads : Cardinality(OwnRecords(t)) = 1

C4_SendFailureHidden ==
    \A t \in Threads :
        (req[t].valid /\ t \in sendFailed) => resp[t] \in {"none", "ok"}

\* the ids that can ever resolve: the seed catalog and what api_products adds
KnownPids == IF app = "main" THEN {"p1", NewPid}
             ELSE {BotSeed[i].id : i \in 1..Len(BotSeed)}

\* C5: GET or POST /order/{id} with an id that is in no catalog answers 404,
\* and a request answered 404 has written nothing to the store and scheduled
\* no notification.
C5_UnknownProduct404 ==
    \A t \in Threads :
        /\ (IsOrder(t) /\ req[t].pid \notin KnownPids /\ pc[t] # "idle")
               => (pc[t] = "done" /\ resp[t] = "404")
        /\ (IsOrder(t) /\ resp[t] = "404")
               => (~wrote[t] /\ ~Scheduled(t) /\ OwnRecords(t) = {}
                   /\ \A o \in durable : o.req # t)

C5_Witness ==
    \E t, u \in Threads :
        /\ IsOrder(t) /\ req[t].pid = "px" /\ resp[t] = "404"
        /\ IsOrder(u) /\ resp[u] = "ok" /\ Orders # <<>>

\* a quantity that reads as a positive number / as the number 1
PositiveText(s) == float(s).ok /\ float(s).tenths > 0
PositiveQty(q) == IF q.num THEN q.tenths > 0 ELSE PositiveText(q.raw)
IsOne(q) == IF q.num THEN q.tenths = 10
            ELSE float(q.raw).ok /\ float(q.raw).tenths = 10

\* C6: every persisted order has a positive numeric quantity, and it is 1 when
\* the submitted qty is absent or does not parse as a positive number.
C6_QtyPositive ==
    \A i \in 1..Len(Orders) :
        /\ PositiveQty(Orders[i].qty)
        /\ (req[Orders[i].req].qty = Missing \/ ~PositiveText(req[Orders[i].req].qty))
               => IsOne(Orders[i].qty)

\* no bot, no destination chat, or (where a bot loop is used) no loop published
Unconfigured == ~bot \/ ~groupId \/ (app # "web_server" /\ ~aioloop)

\* C7: with the notification channel not configured (no bot, no destination
\* chat, or no bot loop where the program uses one) an accepted submission is
\* answered with success, its record is written and no send is attempted.
C7_UnconfiguredStillSucceeds ==
    \A t \in Threads :
        (req[t].valid /\ resp[t] # "none" /\ Unconfigured) =>
            (resp[t] = "ok" /\ wrote[t] /\ attempts[t] = 0)

\* C8: an order that has stood in the complete store is in the store, with the
\* same fields, whenever no write is in progress.
C8_OrdersNeverLost ==
    ~WriterActive => durable \subseteq Range(Orders)

\* C9: no read of the store file ever finds it emptied or cut short by a write
\* in progress.
C9_NoTornRead == ~tornRead

\* the ids of the catalog the program starts with
SeedPids == IF app = "main" THEN {MainSeed[i].id : i \in 1..Len(MainSeed)}
            ELSE {BotSeed[i].id : i \in 1..Len(BotSeed)}

\* C10: an unreadable store file does not block a new valid submission: an
\* order request for a product of the seed catalog is never answered 404.
C10_CorruptStoreDoesNotBlock ==
    \A t \in Threads :
        (IsOrder(t) /\ req[t].pid \in SeedPids) => resp[t] # "404"

\* C11: any two distinct order records of the store carry different
\* identifiers.
C11_IdsDistinct ==
    \A i, j \in 1..Len(Orders) : i # j => Orders[i].id # Orders[j].id

\* the price the catalog gives a product id: no operation of the programs
\* changes the price of an existing product
CatalogPrice(pid) ==
    IF pid = NewPid /\ app = "main" THEN CHOOSE p \in PriceInputs : TRUE
    ELSE FirstWithId(IF app = "main" THEN MainSeed ELSE BotSeed, pid).price

C13_AtLeastOnce ==
    \A t \in Threads :
        (IsOrder(t) /\ wrote[t] /\ bot /\ groupId /\ pc[t] = "done" /\ t \notin queue)
            => t \in delivered

\* C13 amended: delivery is best effort. With the channel configured, an order
\* whose hand-off found the loop published has had exactly one send made for it
\* once its coroutine has left the loop, and it is in the chat only if that one
\* send returned; a send that raised leaves it undelivered.
C13_BestEffortOnce ==
    \A t \in Threads :
        /\ (IsOrder(t) /\ wrote[t] /\ bot /\ groupId
                /\ loopSeen[t] = "published" /\ t \notin queue)
              => /\ attempts[t] = 1
                 /\ (t \in delivered) # (t \in sendFailed)
        /\ (IsOrder(t) /\ t \in delivered) => attempts[t] = 1 /\ t \notin sendFailed

C13_Witness ==
    \E t \in Threads :
        /\ IsOrder(t) /\ wrote[t] /\ bot /\ groupId /\ loopSeen[t] = "published"
        /\ pc[t] = "done" /\ resp[t] = "ok" /\ t \notin queue
        /\ attempts[t] = 1 /\ t \in sendFailed /\ t \notin delivered
        /\ OwnRecords(t) # {}

\* C14: a submission whose write of the order store raised is over with the
\* server-error response, not the confirmation, and no notification was ever
\* handed off or sent for it.
C14_StoreFailureIs5xx ==
    \A t \in Threads :
        (IsOrder(t) /\ t \in writeFailed) =>
            /\ pc[t] = "done" /\ resp[t] = "500"
            /\ ~wrote[t]
            /\ loopSeen[t] = "none"
            /\ ~Scheduled(t) /\ t \notin delivered /\ t \notin sendFailed

C14_Witness ==
    \E t \in Threads :
        /\ IsOrder(t) /\ req[t].valid /\ t \in writeFailed /\ resp[t] = "500"
        /\ bot /\ groupId /\ aioloop
        /\ file.state = "garbled"

\* C15: for every submission at most one transport send is ever made, and a
\* submission whose send raised has had exactly that one send, has no coroutine
\* left on the loop and is not delivered: nothing sends for it again.
C15_AtMostOnce ==
    \A t \in Threads :
        /\ attempts[t] <= 1
        /\ t \in sendFailed =>
              attempts[t] = 1 /\ t \notin queue /\ t \notin delivered

C15_Witness ==
    \E t \in Threads :
        /\ t \in sendFailed /\ attempts[t] = 1
        /\ queue = {} /\ \A u \in Threads : pc[u] = "done"
        /\ app # "web_server" /\ aioloop

\* C16: a notification is on the loop or has been sent only for a submission
\* whose hand-off found the loop published in aioloop. A submission whose
\* hand-off found no loop has its record written and gets the success response,
\* and no notification is scheduled or sent for it in any later state, whether
\* or not the loop is published afterwards.
C16_ScheduledOnlyIfLoopPublished ==
    \A t \in Threads :
        /\ (IsOrder(t) /\ (Scheduled(t) \/ t \in delivered \/ t \in sendFailed))
              => loopSeen[t] = "published"
        /\ (IsOrder(t) /\ loopSeen[t] = "absent") =>
              /\ wrote[t]
              /\ pc[t] \in {"respond", "done"}
              /\ pc[t] = "done" => resp[t] = "ok"
              /\ ~Scheduled(t) /\ t \notin delivered /\ t \notin sendFailed

C16_Witness ==
    \E t \in Threads :
        /\ IsOrder(t) /\ loopSeen[t] = "absent" /\ OwnRecords(t) # {}
        /\ pc[t] = "done" /\ resp[t] = "ok"
        /\ bot /\ groupId /\ aioloop
        /\ queue = {} /\ attempts[t] = 0

====
